---------------------------- MODULE Spec2Model ----------------------------
(***************************************************************************)
(* Contact manager client (src/static/js/index.js): the module-level state *)
(* (contacts, selection, draft, snapshot, search query), the DOM state the *)
(* handlers read back (name inputs, the pending email input, the rendered  *)
(* rows, the form's visibility, the save and delete buttons), the event    *)
(* handlers, and the asynchronous completions of the REST calls.           *)
(*                                                                         *)
(* Text is a sequence of one-character strings, so that trim, the email    *)
(* regular expression, lower-casing and collation are computed.            *)
(***************************************************************************)
EXTENDS Integers, Sequences, FiniteSets, Bags, TLC

(* ------------------------------ bounds -------------------------------- *)

\* Requests that may be outstanding at once.
MaxInFlight == 1

\* Longest committed email list the user builds.
MaxEmails == 2

\* Events (user inputs and request completions) of one run of the page.
MaxEvents == 8

(* ------------------------------- text --------------------------------- *)

\* The whitespace characters of the modelled alphabet.
IsSpace(c) == c = " "

RECURSIVE TrimStart(_)
TrimStart(s) ==
    IF s = <<>> THEN <<>>
    ELSE IF IsSpace(Head(s)) THEN TrimStart(Tail(s)) ELSE s

RECURSIVE TrimEnd(_)
TrimEnd(s) ==
    IF s = <<>> THEN <<>>
    ELSE IF IsSpace(s[Len(s)]) THEN TrimEnd(SubSeq(s, 1, Len(s) - 1)) ELSE s

\* String.prototype.trim
Trim(s) == TrimEnd(TrimStart(s))

\* A character of the class [^\s@]
IsAtomChar(c) == ~IsSpace(c) /\ c # "@"

\* /^[^\s@]+@[^\s@]+\.[^\s@]+$/.test(email)
isValidEmail(email) ==
    \E i \in 2..Len(email) :
        /\ email[i] = "@"
        /\ \A k \in 1..(i - 1) : IsAtomChar(email[k])
        /\ \A k \in (i + 1)..Len(email) : IsAtomChar(email[k])
        /\ \E j \in (i + 2)..(Len(email) - 1) : email[j] = "."

\* String.prototype.toLowerCase, on the modelled alphabet.
LowerChar(c) ==
    CASE c = "A" -> "a"
      [] c = "B" -> "b"
      [] c = "C" -> "c"
      [] OTHER -> c

toLowerCase(s) == [i \in 1..Len(s) |-> LowerChar(s[i])]

\* String.prototype.includes
includes(s, q) ==
    \E i \in 0..(Len(s) - Len(q)) : SubSeq(s, i + 1, i + Len(q)) = q

\* Primary collation weight of a character: space and punctuation sort
\* before letters, letters sort alphabetically whatever their case.
CharRank(c) ==
    CASE c = " " -> 1
      [] c = "." -> 2
      [] c = "@" -> 3
      [] LowerChar(c) = "a" -> 10
      [] LowerChar(c) = "b" -> 11
      [] LowerChar(c) = "c" -> 12
      [] OTHER -> 20

\* Tertiary weight: a lower-case letter sorts before its upper-case form.
CaseRank(c) == IF LowerChar(c) = c THEN 0 ELSE 1

\* Lexicographic comparison of two sequences of weights: -1, 0 or 1.
RECURSIVE LexCompare(_, _)
LexCompare(a, b) ==
    IF a = <<>> /\ b = <<>> THEN 0
    ELSE IF a = <<>> THEN -1
    ELSE IF b = <<>> THEN 1
    ELSE IF Head(a) < Head(b) THEN -1
    ELSE IF Head(a) > Head(b) THEN 1
    ELSE LexCompare(Tail(a), Tail(b))

\* String.prototype.localeCompare: negative, zero or positive.
localeCompare(a, b) ==
    LET primary == LexCompare([i \in 1..Len(a) |-> CharRank(a[i])],
                              [i \in 1..Len(b) |-> CharRank(b[i])])
    IN  IF primary # 0 THEN primary
        ELSE LexCompare([i \in 1..Len(a) |-> CaseRank(a[i])],
                        [i \in 1..Len(b) |-> CaseRank(b[i])])

(* ------------------------------- data --------------------------------- *)

\* selectedContactId = null (a falsy id).
Null == 0

\* An optional value: <<>> is null / absent, <<v>> is v.
None == <<>>
Some(v) == <<v>>

\* The texts a user types into a name field.
NameTexts == { <<>>, <<"A", " ">> }

\* The texts a user types into the pending email field.
EmailTexts == { <<>>, <<"a", "@", "b">>, <<" ", "a", "@", "b", ".", "c">> }

\* The values Date.now() returns: two reads may fall in the same
\* millisecond, and the wall clock is not monotonic.
Times == { 1, 2 }

\* The texts a user types into the search field.
QueryTexts == { <<>>, <<"B">> }

\* The server is an external collaborator: what it answers is an input of
\* the page, drawn from the answers below, whatever was sent before.

\* Contacts the persistence layer holds when the page is loaded.  Names are
\* any strings (GET answers a JSON array of Contact): the second contact was
\* stored, by another client of the API, with a space after its first name.
Contact1 ==
    [id |-> 1, firstName |-> <<"A">>, lastName |-> <<"b">>,
     emails |-> << [id |-> 1, email |-> <<"a", "@", "b", ".", "c">>] >>]

Contact2 ==
    [id |-> 2, firstName |-> <<"C", " ">>, lastName |-> <<"A">>, emails |-> <<>>]

\* The arrays GET /api/contacts may answer with.
ServerLists == { <<Contact1>>, <<Contact1, Contact2>> }

\* The ids the persistence layer gives to created contacts.
CreatedIds == { 3 }

\* The ids the persistence layer has assigned or may assign.
ServerIds == { Contact1.id, Contact2.id } \cup CreatedIds

\* POST answers with the stored contact under a server-assigned id.
ServerCreate(body, newId) ==
    [id |-> newId, firstName |-> body.firstName, lastName |-> body.lastName,
     emails |-> body.emails]

\* PUT answers with the stored contact under the id of the URL.
ServerUpdate(body, urlId) ==
    [id |-> urlId, firstName |-> body.firstName, lastName |-> body.lastName,
     emails |-> body.emails]

\* How a request can end.
\*   ok          2xx
\*   network     fetch() rejects
\*   errorField  non-2xx, JSON body {error: ServerErrorText}
\*   errorJson   non-2xx, JSON body without an error field
\*   errorText   non-2xx, body that is not JSON
Outcomes == { "ok", "network", "errorField", "errorJson", "errorText" }

\* Messages.
ServerErrorText == "server: rejected"
SaveFallback == "Failed to save contact"
DeleteFallback == "Failed to delete contact"
FetchRejected == "Failed to fetch"
JsonSyntaxError == "Unexpected token in JSON"
NotIterable == "filteredContacts is not iterable"
NotAFunction == "contacts.filter is not a function"

(* ------------------------------- state -------------------------------- *)

VARIABLES
    contacts,            \* [isArray, items]: the value of let contacts
    selectedContactId,   \* Null or a contact id
    isAddingEmail,
    isNewContact,
    currentEmailList,    \* sequence of [id, email]
    originalContact,     \* None or Some([firstName, lastName, emails])
    searchQuery,
    firstNameInput,      \* firstNameInput.value
    lastNameInput,       \* lastNameInput.value
    pendingInput,        \* None, or Some(value) of the input inside #emailList
    emailListDom,        \* number of email rows rendered, each bound to its index
    contactFormHidden,   \* #contactForm carries class hidden
    saveBtnDisabled,     \* saveBtn.disabled
    deleteBtnDisplayed,  \* deleteBtn.style.display # 'none'
    contactsListDom,     \* the contacts rendered in #contactsList, in order
    inflight,            \* bag of outstanding requests
    alert,               \* None, or Some(message) shown by the last step
    lastEvent,           \* what the last step was
    attempt,             \* None, or Some([body, failed]): the last save, unedited since
    events               \* number of events handled so far

progVars ==
    <<contacts, selectedContactId, isAddingEmail, isNewContact, currentEmailList,
      originalContact, searchQuery, firstNameInput, lastNameInput, pendingInput,
      emailListDom, contactFormHidden, saveBtnDisabled, deleteBtnDisplayed,
      contactsListDom>>

vars == <<progVars, inflight, alert, lastEvent, attempt, events>>

\* The page's state as one record, so that a handler is the composition of
\* the functions it calls.  threw / message carry an exception in progress.
State ==
    [contacts |-> contacts, selectedContactId |-> selectedContactId,
     isAddingEmail |-> isAddingEmail, isNewContact |-> isNewContact,
     currentEmailList |-> currentEmailList, originalContact |-> originalContact,
     searchQuery |-> searchQuery, firstNameInput |-> firstNameInput,
     lastNameInput |-> lastNameInput, pendingInput |-> pendingInput,
     emailListDom |-> emailListDom, contactFormHidden |-> contactFormHidden,
     saveBtnDisabled |-> saveBtnDisabled,
     deleteBtnDisplayed |-> deleteBtnDisplayed,
     contactsListDom |-> contactsListDom,
     threw |-> FALSE, message |-> ""]

\* The next state of the page is the record s.
Becomes(s) ==
    /\ contacts' = s.contacts
    /\ selectedContactId' = s.selectedContactId
    /\ isAddingEmail' = s.isAddingEmail
    /\ isNewContact' = s.isNewContact
    /\ currentEmailList' = s.currentEmailList
    /\ originalContact' = s.originalContact
    /\ searchQuery' = s.searchQuery
    /\ firstNameInput' = s.firstNameInput
    /\ lastNameInput' = s.lastNameInput
    /\ pendingInput' = s.pendingInput
    /\ emailListDom' = s.emailListDom
    /\ contactFormHidden' = s.contactFormHidden
    /\ saveBtnDisabled' = s.saveBtnDisabled
    /\ deleteBtnDisplayed' = s.deleteBtnDisplayed
    /\ contactsListDom' = s.contactsListDom

(* ----------------------------- functions ------------------------------ *)

\* truthiness of an id (null is falsy)
Truthy(id) == id # Null

\* currentEmailList.map(e => e.email)
EmailStrings(list) == [i \in 1..Len(list) |-> list[i].email]

\* filterContacts(contacts, query), contacts an array
filterContacts(items, query) ==
    IF query = <<>> THEN items
    ELSE LET q == toLowerCase(query)
             Keep(contact) ==
                 \/ includes(toLowerCase(contact.firstName \o <<" ">> \o contact.lastName), q)
                 \/ \E i \in 1..Len(contact.emails) :
                        includes(toLowerCase(contact.emails[i].email), q)
         IN  SelectSeq(items, Keep)

\* One step of the stable sort: contact goes before the first element that
\* does not sort before it.
RECURSIVE InsertByLastName(_, _)
InsertByLastName(contact, sorted) ==
    IF sorted = <<>> THEN <<contact>>
    ELSE IF localeCompare(contact.lastName, Head(sorted).lastName) <= 0
         THEN <<contact>> \o sorted
         ELSE <<Head(sorted)>> \o InsertByLastName(contact, Tail(sorted))

\* [...filteredContacts].sort((a, b) => a.lastName.localeCompare(b.lastName))
RECURSIVE sortByLastName(_)
sortByLastName(items) ==
    IF items = <<>> THEN <<>>
    ELSE InsertByLastName(Head(items), sortByLastName(Tail(items)))

\* renderContactsList() sorting filteredContacts itself instead of a copy:
\* without a query filterContacts returns contacts, which is then reordered.
renderContactsListSortingInPlace(s) ==
    LET emptied == [s EXCEPT !.contactsListDom = <<>>]
        sorted == sortByLastName(filterContacts(s.contacts.items, s.searchQuery))
    IN  IF ~s.contacts.isArray
        THEN [emptied EXCEPT !.threw = TRUE,
                             !.message = IF s.searchQuery = <<>> THEN NotIterable
                                         ELSE NotAFunction]
        ELSE [emptied EXCEPT !.contactsListDom = sorted,
                             !.contacts = IF s.searchQuery = <<>>
                                          THEN [isArray |-> TRUE, items |-> sorted]
                                          ELSE @]

\* renderContactsList(): the list is emptied first; a contacts value that is
\* no array then throws a TypeError out of the filter or the spread.
renderContactsList(s) ==
    LET emptied == [s EXCEPT !.contactsListDom = <<>>]
    IN  IF ~s.contacts.isArray
        THEN [emptied EXCEPT !.threw = TRUE,
                             !.message = IF s.searchQuery = <<>> THEN NotIterable
                                         ELSE NotAFunction]
        ELSE [emptied EXCEPT !.contactsListDom =
                  sortByLastName(filterContacts(s.contacts.items, s.searchQuery))]

\* renderEmailList(): one row per committed entry, and a fresh empty input
\* when isAddingEmail.
renderEmailList(s) ==
    [s EXCEPT !.emailListDom = Len(s.currentEmailList),
              !.pendingInput = IF s.isAddingEmail THEN Some(<<>>) ELSE None]

\* emailInput ? emailInput.value.trim() : ''
unsavedEmail(s) ==
    IF s.pendingInput = None THEN <<>> ELSE Trim(s.pendingInput[1])

\* The value checkForChanges computes as hasData / hasChanges.
hasChanges(s) ==
    LET unsaved == unsavedEmail(s)
        hasUnsavedValidEmail == unsaved # <<>> /\ isValidEmail(unsaved)
    IN  IF s.originalContact = None
        THEN \/ Trim(s.firstNameInput) # <<>>
             \/ Trim(s.lastNameInput) # <<>>
             \/ Len(s.currentEmailList) > 0
             \/ hasUnsavedValidEmail
        ELSE \/ Trim(s.firstNameInput) # s.originalContact[1].firstName
             \/ Trim(s.lastNameInput) # s.originalContact[1].lastName
             \/ EmailStrings(s.currentEmailList) #
                    EmailStrings(s.originalContact[1].emails)
             \/ hasUnsavedValidEmail

\* checkForChanges()
checkForChanges(s) == [s EXCEPT !.saveBtnDisabled = ~hasChanges(s)]

\* selectContact(contact)
selectContact(s, contact) ==
    LET s1 == [s EXCEPT !.selectedContactId = contact.id,
                        !.originalContact =
                            Some([firstName |-> contact.firstName,
                                  lastName |-> contact.lastName,
                                  emails |-> contact.emails])]
        s2 == renderContactsList(s1)
        s3 == [s2 EXCEPT !.contactFormHidden = FALSE,
                         !.firstNameInput = contact.firstName,
                         !.lastNameInput = contact.lastName,
                         !.currentEmailList = contact.emails,
                         !.isAddingEmail = FALSE]
        s4 == [renderEmailList(s3) EXCEPT !.deleteBtnDisplayed = TRUE]
    IN  IF s2.threw THEN s2 ELSE checkForChanges(s4)

\* clearForm() without originalContact = null.
clearFormKeepingSnapshot(s) ==
    LET isAddingNew == /\ ~Truthy(s.selectedContactId)
                       /\ s.firstNameInput = <<>>
                       /\ s.lastNameInput = <<>>
        s1 == [s EXCEPT !.selectedContactId = Null,
                        !.isNewContact = FALSE,
                        !.firstNameInput = <<>>,
                        !.lastNameInput = <<>>,
                        !.currentEmailList = <<>>,
                        !.isAddingEmail = FALSE,
                        !.deleteBtnDisplayed = FALSE]
        s2 == renderEmailList(s1)
    IN  IF isAddingNew THEN s2 ELSE [s2 EXCEPT !.contactFormHidden = TRUE]

\* clearForm()
clearForm(s) ==
    LET isAddingNew == /\ ~Truthy(s.selectedContactId)
                       /\ s.firstNameInput = <<>>
                       /\ s.lastNameInput = <<>>
        s1 == [s EXCEPT !.selectedContactId = Null,
                        !.isNewContact = FALSE,
                        !.firstNameInput = <<>>,
                        !.lastNameInput = <<>>,
                        !.currentEmailList = <<>>,
                        !.isAddingEmail = FALSE,
                        !.deleteBtnDisplayed = FALSE,
                        !.originalContact = None]
        s2 == renderEmailList(s1)
    IN  IF isAddingNew THEN s2 ELSE [s2 EXCEPT !.contactFormHidden = TRUE]

\* getFormData() without the trim() of the name fields.
getFormDataUntrimmed(s) ==
    [id |-> IF Truthy(s.selectedContactId) THEN Some(s.selectedContactId) ELSE None,
     firstName |-> s.firstNameInput,
     lastName |-> s.lastNameInput,
     emails |-> s.currentEmailList]

\* getFormData(); an absent id field is None.
getFormData(s) ==
    [id |-> IF Truthy(s.selectedContactId) THEN Some(s.selectedContactId) ELSE None,
     firstName |-> Trim(s.firstNameInput),
     lastName |-> Trim(s.lastNameInput),
     emails |-> s.currentEmailList]

\* currentEmailList.push({ id: Date.now(), email })
pushEmail(s, now, email) ==
    [s EXCEPT !.currentEmailList = Append(@, [id |-> now, email |-> email])]

\* currentEmailList.splice(index): without a delete count everything from
\* index on is removed.
spliceToEnd(list, index) ==
    IF index + 1 > Len(list) THEN list
    ELSE SubSeq(list, 1, index)

\* currentEmailList.splice(index, 1), index counted from 0
splice(list, index) ==
    IF index + 1 > Len(list) THEN list
    ELSE SubSeq(list, 1, index) \o SubSeq(list, index + 2, Len(list))

(* ------------------------------ handlers ------------------------------ *)

\* firstNameInput 'input' listener, after the field took the typed text
firstNameTyped(s, text) == checkForChanges([s EXCEPT !.firstNameInput = text])

\* lastNameInput 'input' listener, after the field took the typed text
lastNameTyped(s, text) == checkForChanges([s EXCEPT !.lastNameInput = text])

\* <input type="email">: the value is the typed text with leading and
\* trailing whitespace stripped; then the 'input' listener runs.
emailTyped(s, text) == checkForChanges([s EXCEPT !.pendingInput = Some(Trim(text))])

\* The Enter listener without its isValidEmail(email) test.
emailEnterUnvalidated(s, now) ==
    LET email == Trim(s.pendingInput[1])
        committed == [renderEmailList(pushEmail(s, now, email))
                          EXCEPT !.isAddingEmail = FALSE]
    IN  checkForChanges(IF email # <<>> THEN committed ELSE s)

\* keydown listener of the pending input, e.key === 'Enter'.  The template
\* clone is a DocumentFragment, which has no parentElement, so the input
\* that renderEmailList has just drawn stays.
emailEnter(s, now) ==
    LET email == Trim(s.pendingInput[1])
        committed == [renderEmailList(pushEmail(s, now, email))
                          EXCEPT !.isAddingEmail = FALSE]
    IN  checkForChanges(IF email # <<>> /\ isValidEmail(email) THEN committed ELSE s)

\* click listener of the delete button of row index (from 0)
emailDeleteClick(s, index) ==
    checkForChanges(renderEmailList(
        [s EXCEPT !.currentEmailList = splice(@, index)]))

\* contacts.find(c => c.id === selectedContactId) finds a contact
findsSelected(s) ==
    /\ s.contacts.isArray
    /\ \E i \in 1..Len(s.contacts.items) :
           s.contacts.items[i].id = s.selectedContactId

\* addEmailBtn click listener
addEmailClick(s) ==
    IF s.isAddingEmail THEN s
    ELSE LET s1 == [s EXCEPT !.isAddingEmail = TRUE]
         IN  IF s.isNewContact \/ findsSelected(s) THEN renderEmailList(s1) ELSE s1

\* addContactBtn click listener
addContactClick(s) ==
    [clearForm(s) EXCEPT !.isNewContact = TRUE, !.contactFormHidden = FALSE]

\* saveBtn click listener, up to getFormData(): the pending text is pushed
\* when it is non-empty and valid; nothing is drawn again.
saveClickCommit(s, now) ==
    IF s.pendingInput = None THEN s
    ELSE LET email == Trim(s.pendingInput[1])
         IN  IF email # <<>> /\ isValidEmail(email)
             THEN pushEmail(s, now, email) ELSE s

\* cancelBtn click listener
cancelClick(s) == clearForm(s)

\* searchInput 'input' listener; an exception of the render is uncaught.
searchTyped(s, text) ==
    [renderContactsList([s EXCEPT !.searchQuery = text]) EXCEPT !.threw = FALSE]

(* ------------------------------ requests ------------------------------ *)

\* saveContact(contactData) up to its fetch
saveRequest(body) ==
    LET update == body.id # None /\ Truthy(body.id[1])
    IN  [op |-> IF update THEN "PUT" ELSE "POST",
         id |-> IF update THEN body.id[1] ELSE Null,
         body |-> Some(body), then |-> "none", saved |-> None]

\* deleteContact(id) up to its fetch, the confirmation accepted
deleteRequest(id) ==
    [op |-> "DELETE", id |-> id, body |-> None, then |-> "none", saved |-> None]

\* fetchContacts() up to its fetch; then / saved are what its caller does
\* once it returns: nothing, selectContact(savedContact), or clearForm()
fetchRequest(then, saved) ==
    [op |-> "GET", id |-> Null, body |-> None, then |-> then, saved |-> saved]

\* The message saveContact alerts when its request does not succeed.
saveFailureMessage(outcome) ==
    CASE outcome = "network" -> FetchRejected
      [] outcome = "errorField" -> ServerErrorText
      [] outcome = "errorJson" -> SaveFallback
      [] outcome = "errorText" -> JsonSyntaxError

\* The message deleteContact alerts when its request does not succeed.
deleteFailureMessage(outcome) ==
    IF outcome = "network" THEN FetchRejected ELSE DeleteFallback

\* fetchContacts() drawing the email rows of the form again as well.
fetchContactsDoneRedrawingForm(s, outcome, list) ==
    renderEmailList(
        CASE outcome = "ok" ->
                 renderContactsList([s EXCEPT !.contacts = [isArray |-> TRUE, items |-> list]])
          [] outcome \in {"errorField", "errorJson"} ->
                 [renderContactsList([s EXCEPT !.contacts = [isArray |-> FALSE, items |-> <<>>]])
                      EXCEPT !.threw = FALSE, !.message = ""]
          [] OTHER -> s)

\* fetchContacts() from the answer on: response.ok is not looked at, so
\* every JSON body becomes contacts; the TypeError of rendering a contacts
\* value that is no array, like every other failure, is caught and logged.
fetchContactsDone(s, outcome, list) ==
    CASE outcome = "ok" ->
             renderContactsList([s EXCEPT !.contacts = [isArray |-> TRUE, items |-> list]])
      [] outcome \in {"errorField", "errorJson"} ->
             [renderContactsList([s EXCEPT !.contacts = [isArray |-> FALSE, items |-> <<>>]])
                  EXCEPT !.threw = FALSE, !.message = ""]
      [] OTHER -> s

\* saveContact after await fetchContacts(): selectContact(savedContact)
saveContactDone(s, outcome, list, saved) ==
    selectContact(fetchContactsDone(s, outcome, list), saved)

\* deleteContact after await fetchContacts(): clearForm()
deleteContactDone(s, outcome, list) ==
    clearForm(fetchContactsDone(s, outcome, list))

(* ------------------------------ actions ------------------------------- *)

\* What the step was, what it alerted, and the save it leaves retryable.
Note(type, outcome, contact, shown, retry) ==
    /\ lastEvent' = [type |-> type, outcome |-> outcome, contact |-> contact]
    /\ alert' = shown
    /\ attempt' = retry
    /\ events < MaxEvents
    /\ events' = events + 1

FormOpen == ~contactFormHidden

Room == BagCardinality(inflight) < MaxInFlight

\* DOMContentLoaded: fetchContacts(); clearForm(); the form is hidden.
Init ==
    /\ contacts = [isArray |-> TRUE, items |-> <<>>]
    /\ selectedContactId = Null
    /\ isAddingEmail = FALSE
    /\ isNewContact = FALSE
    /\ currentEmailList = <<>>
    /\ originalContact = None
    /\ searchQuery = <<>>
    /\ firstNameInput = <<>>
    /\ lastNameInput = <<>>
    /\ pendingInput = None
    /\ emailListDom = 0
    /\ contactFormHidden = TRUE
    /\ saveBtnDisabled = FALSE
    /\ deleteBtnDisplayed = FALSE
    /\ contactsListDom = <<>>
    /\ inflight = SetToBag({fetchRequest("none", None)})
    /\ alert = None
    /\ lastEvent = [type |-> "load", outcome |-> "", contact |-> None]
    /\ attempt = None
    /\ events = 0

\* A click on a rendered contact: selectContact(contact), contact the object
\* the row was drawn from.
ContactClick ==
    \E i \in 1..Len(contactsListDom) :
        /\ Becomes(selectContact(State, contactsListDom[i]))
        /\ UNCHANGED inflight
        /\ Note("select", "", None, None, None)

AddContactClick ==
    /\ Becomes(addContactClick(State))
    /\ UNCHANGED inflight
    /\ Note("addContact", "", None, None, None)

TypeFirstName ==
    \E text \in NameTexts \ {firstNameInput} :
        /\ FormOpen
        /\ Becomes(firstNameTyped(State, text))
        /\ UNCHANGED inflight
        /\ Note("typeFirstName", "", None, None, None)

TypeLastName ==
    \E text \in NameTexts \ {lastNameInput} :
        /\ FormOpen
        /\ Becomes(lastNameTyped(State, text))
        /\ UNCHANGED inflight
        /\ Note("typeLastName", "", None, None, None)

AddEmailClick ==
    /\ FormOpen
    /\ Becomes(addEmailClick(State))
    /\ UNCHANGED inflight
    /\ Note("addEmail", "", None, None, None)

TypeEmail ==
    \E text \in EmailTexts :
        /\ FormOpen
        /\ pendingInput # None
        /\ Trim(text) # pendingInput[1]
        /\ Becomes(emailTyped(State, text))
        /\ UNCHANGED inflight
        /\ Note("typeEmail", "", None, None, None)

EmailEnter ==
    \E now \in Times :
        /\ FormOpen
        /\ pendingInput # None
        /\ Len(emailEnter(State, now).currentEmailList) <= MaxEmails
        /\ Becomes(emailEnter(State, now))
        /\ UNCHANGED inflight
        /\ Note("enter", "", None, None, None)

EmailDeleteClick ==
    \E row \in 1..emailListDom :
        /\ FormOpen
        /\ Becomes(emailDeleteClick(State, row - 1))
        /\ UNCHANGED inflight
        /\ Note("removeEmail", "", None, None, None)

\* saveBtn click: a disabled button receives no click.
SaveClick ==
    \E now \in Times :
        /\ FormOpen
        /\ ~saveBtnDisabled
        /\ Room
        /\ Len(saveClickCommit(State, now).currentEmailList) <= MaxEmails
        /\ LET s == saveClickCommit(State, now)
               body == getFormData(s)
           IN  /\ Becomes(s)
               /\ inflight' = inflight (+) SetToBag({saveRequest(body)})
               /\ Note("saveClick", "", None, None,
                       Some([body |-> body, failed |-> FALSE]))

\* The deleteBtn click without the early return of a declined confirm().
DeleteClickUnconfirmed ==
    \E accepted \in BOOLEAN :
        /\ FormOpen
        /\ deleteBtnDisplayed
        /\ Truthy(selectedContactId)
        /\ Room
        /\ UNCHANGED progVars
        /\ inflight' = inflight (+) SetToBag({deleteRequest(selectedContactId)})
        /\ Note(IF accepted THEN "deleteAccepted" ELSE "deleteDeclined",
                "", None, None, None)

\* deleteBtn click, with the user's answer to confirm()
DeleteClick ==
    \E accepted \in BOOLEAN :
        /\ FormOpen
        /\ deleteBtnDisplayed
        /\ Truthy(selectedContactId)
        /\ accepted => Room
        /\ UNCHANGED progVars
        /\ inflight' = IF accepted
                       THEN inflight (+) SetToBag({deleteRequest(selectedContactId)})
                       ELSE inflight
        /\ Note(IF accepted THEN "deleteAccepted" ELSE "deleteDeclined",
                "", None, None, None)

CancelClick ==
    /\ FormOpen
    /\ Becomes(cancelClick(State))
    /\ UNCHANGED inflight
    /\ Note("cancel", "", None, None, None)

SearchInput ==
    \E text \in QueryTexts \ {searchQuery} :
        /\ Becomes(searchTyped(State, text))
        /\ UNCHANGED inflight
        /\ Note("search", "", None, None, None)

\* The POST or PUT of a save ends: on 2xx saveContact goes on to
\* await fetchContacts(); otherwise it alerts.
SaveResponse ==
    \E r \in BagToSet(inflight), outcome \in Outcomes, newId \in CreatedIds :
        /\ r.op \in {"POST", "PUT"}
        /\ UNCHANGED progVars
        /\ IF outcome = "ok"
           THEN LET saved == IF r.op = "POST"
                             THEN ServerCreate(r.body[1], newId)
                             ELSE ServerUpdate(r.body[1], r.id)
                IN  /\ inflight' = (inflight (-) SetToBag({r}))
                                       (+) SetToBag({fetchRequest("select", Some(saved))})
                    /\ Note("saveResponse", outcome, Some(saved), None, None)
           ELSE /\ inflight' = inflight (-) SetToBag({r})
                /\ Note("saveResponse", outcome, None,
                        Some(saveFailureMessage(outcome)),
                        IF attempt # None /\ attempt[1].body = r.body[1]
                        THEN Some([body |-> r.body[1], failed |-> TRUE])
                        ELSE None)

\* The DELETE ends, without the test of response.ok: every answer leads to
\* await fetchContacts(), only a rejected fetch alerts.
DeleteResponseUnchecked ==
    \E r \in BagToSet(inflight), outcome \in Outcomes :
        /\ r.op = "DELETE"
        /\ UNCHANGED progVars
        /\ IF outcome # "network"
           THEN /\ inflight' = (inflight (-) SetToBag({r}))
                                   (+) SetToBag({fetchRequest("clear", None)})
                /\ Note("deleteResponse", outcome, None, None, None)
           ELSE /\ inflight' = inflight (-) SetToBag({r})
                /\ Note("deleteResponse", outcome, None,
                        Some(deleteFailureMessage(outcome)), None)

\* The DELETE ends: on 2xx deleteContact goes on to await fetchContacts();
\* otherwise it alerts.
DeleteResponse ==
    \E r \in BagToSet(inflight), outcome \in Outcomes :
        /\ r.op = "DELETE"
        /\ UNCHANGED progVars
        /\ IF outcome = "ok"
           THEN /\ inflight' = (inflight (-) SetToBag({r}))
                                   (+) SetToBag({fetchRequest("clear", None)})
                /\ Note("deleteResponse", outcome, None, None, None)
           ELSE /\ inflight' = inflight (-) SetToBag({r})
                /\ Note("deleteResponse", outcome, None,
                        Some(deleteFailureMessage(outcome)), None)

\* The arrays a GET that ends with outcome may carry.
Answers(outcome) == IF outcome = "ok" THEN ServerLists ELSE {<<>>}

\* The GET of the page load ends.
RefreshDone ==
    \E r \in BagToSet(inflight), outcome \in Outcomes, list \in ServerLists \cup {<<>>} :
        /\ r.op = "GET" /\ r.then = "none"
        /\ list \in Answers(outcome)
        /\ Becomes(fetchContactsDone(State, outcome, list))
        /\ inflight' = inflight (-) SetToBag({r})
        /\ Note("refreshDone", outcome, None, None, None)

\* The GET that follows a successful save ends, and the saved contact is
\* selected; an exception of selectContact is alerted by saveContact.
SaveDone ==
    \E r \in BagToSet(inflight), outcome \in Outcomes, list \in ServerLists \cup {<<>>} :
        /\ r.op = "GET" /\ r.then = "select"
        /\ list \in Answers(outcome)
        /\ LET s == saveContactDone(State, outcome, list, r.saved[1])
           IN  /\ Becomes(s)
               /\ inflight' = inflight (-) SetToBag({r})
               /\ Note("saveDone", outcome, r.saved,
                       IF s.threw THEN Some(s.message) ELSE None, None)

\* The GET that follows a successful delete ends, and the form is cleared.
DeleteDone ==
    \E r \in BagToSet(inflight), outcome \in Outcomes, list \in ServerLists \cup {<<>>} :
        /\ r.op = "GET" /\ r.then = "clear"
        /\ list \in Answers(outcome)
        /\ Becomes(deleteContactDone(State, outcome, list))
        /\ inflight' = inflight (-) SetToBag({r})
        /\ Note("deleteDone", outcome, None, None, None)

Next ==
    \/ ContactClick
    \/ AddContactClick
    \/ TypeFirstName
    \/ TypeLastName
    \/ AddEmailClick
    \/ TypeEmail
    \/ EmailEnter
    \/ EmailDeleteClick
    \/ SaveClick
    \/ DeleteClick
    \/ CancelClick
    \/ SearchInput
    \/ SaveResponse
    \/ DeleteResponse
    \/ RefreshDone
    \/ SaveDone
    \/ DeleteDone

Spec == Init /\ [][Next]_vars

(* ------------------------ the list filter / sort ----------------------- *)

\* The derivation of the visible list, on its own: the page is loaded, the
\* GET is answered with one of ListAnswers, and the user types queries.

\* Contacts for the answers of GET /api/contacts.
Listed1 ==
    [id |-> 1, firstName |-> <<"A">>, lastName |-> <<"C", "b">>, emails |-> <<>>]

Listed2 ==
    [id |-> 2, firstName |-> <<"B">>, lastName |-> <<"A", "b">>,
     emails |-> << [id |-> 1, email |-> <<"c", "@", "a", ".", "b">>] >>]

Listed3 ==
    [id |-> 3, firstName |-> <<>>, lastName |-> <<"a", "b">>, emails |-> <<>>]

Listed4 ==
    [id |-> 4, firstName |-> <<"c">>, lastName |-> <<"C", "b">>,
     emails |-> << [id |-> 1, email |-> <<"B", "@", "c", ".", "a">>] >>]

\* The arrays the GET answers with, in the server's order.
ListAnswers ==
    { <<>>,
      <<Listed1, Listed2>>,
      <<Listed1, Listed2, Listed3>>,
      <<Listed2, Listed3>>,
      <<Listed3, Listed2>>,
      <<Listed2, Listed4>>,
      <<Listed1, Listed4>>,
      <<Listed4, Listed1>>,
      <<Listed4, Listed3, Listed2, Listed1>> }

\* The texts typed into the search field.
ListQueries ==
    { <<>>, <<"c", "b">>, <<"B", " ">>, <<"c", "@">>, <<"B", "@">>, <<"@", "@">> }

\* The GET of the page load is answered 2xx with an array of ListAnswers.
ListRefreshDone ==
    \E r \in BagToSet(inflight), list \in ListAnswers :
        /\ r.op = "GET" /\ r.then = "none"
        /\ Becomes(fetchContactsDone(State, "ok", list))
        /\ inflight' = inflight (-) SetToBag({r})
        /\ Note("refreshDone", "ok", None, None, None)

\* searchInput 'input' listener, the text one of ListQueries
ListSearchInput ==
    \E text \in ListQueries \ {searchQuery} :
        /\ Becomes(searchTyped(State, text))
        /\ UNCHANGED inflight
        /\ Note("search", "", None, None, None)

NextList ==
    \/ ListRefreshDone
    \/ ListSearchInput

SpecList == Init /\ [][NextList]_vars

(* ------------------------------- claims ------------------------------- *)

\* The pending email text: the value of the pending input, empty without one.
PendingText == IF pendingInput = None THEN <<>> ELSE Trim(pendingInput[1])

\* hasChanges(draft, pristine, pendingEmailText) of the Change Detector.
ChangeDetected ==
    LET validPending == PendingText # <<>> /\ isValidEmail(PendingText)
    IN  IF originalContact = None
        THEN \/ Trim(firstNameInput) # <<>>
             \/ Trim(lastNameInput) # <<>>
             \/ currentEmailList # <<>>
             \/ validPending
        ELSE \/ Trim(firstNameInput) # originalContact[1].firstName
             \/ Trim(lastNameInput) # originalContact[1].lastName
             \/ EmailStrings(currentEmailList) # EmailStrings(originalContact[1].emails)
             \/ validPending

\* r was issued by the step: inflight' holds one more copy of it.
Issued(r) == CopiesIn(r, inflight') > CopiesIn(r, inflight)

\* C1: in every reachable state the 'new contact' flag is not set while an
\* existing contact id is selected, and the form is not open while nothing is
\* selected and no new contact is being drafted.
C1_ExactlyOneSessionMode ==
    /\ ~(isNewContact /\ selectedContactId # Null)
    /\ ~(FormOpen /\ selectedContactId = Null /\ ~isNewContact)

\* C2: whenever the edit form is open, the save button is enabled if and only
\* if the Change Detector reports changes.
C2_SaveEnabledIffChanges ==
    FormOpen => (~saveBtnDisabled <=> ChangeDetected)

\* C3: a failed save leaves selection, snapshot and draft untouched, and a
\* save re-invoked with no event in between submits the payload that failed.
C3_FailedSaveRetriesSamePayload ==
    [][/\ (lastEvent'.type = "saveResponse" /\ lastEvent'.outcome # "ok")
              => UNCHANGED progVars
       /\ (attempt # None /\ attempt[1].failed /\ lastEvent'.type = "saveClick")
              => attempt'[1].body = attempt[1].body]_vars

\* C4: a list refresh that fails (rejected, or answered non-2xx) leaves the
\* in-memory contact list and the rendered list as they were.
C4_FailedRefreshKeepsList ==
    [][(/\ lastEvent'.type \in {"refreshDone", "saveDone", "deleteDone"}
        /\ lastEvent'.outcome # "ok")
           => /\ contacts' = contacts
              /\ contactsListDom' = contactsListDom]_vars

\* C5: a save issues exactly one request: POST without id when no contact id
\* is selected, otherwise PUT for the selected id, an id the server assigned;
\* its body carries the trimmed names and the committed email list.
C5_SaveIssuesOneRequest ==
    [][lastEvent'.type = "saveClick" =>
           LET new == selectedContactId = Null
               body == [id |-> IF new THEN None ELSE Some(selectedContactId),
                        firstName |-> Trim(firstNameInput),
                        lastName |-> Trim(lastNameInput),
                        emails |-> currentEmailList']
               request == [op |-> IF new THEN "POST" ELSE "PUT",
                           id |-> selectedContactId,
                           body |-> Some(body), then |-> "none", saved |-> None]
           IN  /\ inflight' = inflight (+) SetToBag({request})
               /\ ~new => selectedContactId \in ServerIds]_vars

\* A save of a selected contact has just been issued as a PUT for its id.
C5_Witness ==
    /\ lastEvent.type = "saveClick"
    /\ selectedContactId # Null
    /\ \E r \in BagToSet(inflight) : r.op = "PUT" /\ r.id = selectedContactId

\* C6: once a successful save has completed, the selection is the returned
\* contact's id, snapshot and draft hold the returned values, and the Change
\* Detector reports no changes.
C6_SaveSuccessReselects ==
    lastEvent.type = "saveDone" =>
        LET saved == lastEvent.contact[1]
        IN  /\ selectedContactId = saved.id
            /\ originalContact = Some([firstName |-> saved.firstName,
                                       lastName |-> saved.lastName,
                                       emails |-> saved.emails])
            /\ firstNameInput = saved.firstName
            /\ lastNameInput = saved.lastName
            /\ currentEmailList = saved.emails
            /\ ~ChangeDetected

\* C7: a DELETE is issued only by a delete click whose confirmation was
\* accepted, for the id of the selected existing contact; a declined
\* confirmation issues nothing and changes nothing.
C7_DeleteOnlyAfterConfirmation ==
    [][/\ \A r \in BagToSet(inflight') :
              (r.op = "DELETE" /\ Issued(r)) =>
                  /\ lastEvent'.type = "deleteAccepted"
                  /\ r.id = selectedContactId
                  /\ selectedContactId # Null
                  /\ originalContact # None
       /\ lastEvent'.type = "deleteDeclined" => UNCHANGED <<progVars, inflight>>]_vars

\* The confirmation of a delete of a selected contact has just been declined.
C7_Witness ==
    /\ lastEvent.type = "deleteDeclined"
    /\ selectedContactId # Null
    /\ \A r \in BagToSet(inflight) : r.op # "DELETE"

\* C8: a confirmed delete that fails alerts, leaves selection, draft, snapshot
\* and contact list as they were, and issues no refetch.
C8_FailedDeleteKeepsState ==
    [][(lastEvent'.type = "deleteResponse" /\ lastEvent'.outcome # "ok") =>
           /\ alert' # None
           /\ UNCHANGED progVars
           /\ \A r \in BagToSet(inflight') : ~Issued(r)]_vars

\* A confirmed delete of the selected contact has just failed.
C8_Witness ==
    /\ lastEvent.type = "deleteResponse"
    /\ lastEvent.outcome = "errorField"
    /\ alert # None
    /\ selectedContactId # Null

\* C9: the message alerted for a failed save or delete is the error field of
\* the response when it has one, and the fixed fallback string otherwise.
C9_BestAvailableMessage ==
    (lastEvent.type \in {"saveResponse", "deleteResponse"} /\ lastEvent.outcome # "ok")
        => alert = Some(IF lastEvent.outcome = "errorField" THEN ServerErrorText
                        ELSE IF lastEvent.type = "saveResponse" THEN SaveFallback
                        ELSE DeleteFallback)

\* C10: typing pending text leaves the committed list as it is; Enter and
\* save append the trimmed pending text when it is non-empty and valid, and
\* otherwise leave the list as it is and alert nothing; no other event brings
\* a new entry into the list, but for loading a contact's emails.
C10_CommitOnlyValidPending ==
    [][LET type == lastEvent'.type
           entries(list) == {list[i] : i \in 1..Len(list)}
       IN  /\ type = "typeEmail" => currentEmailList' = currentEmailList
           /\ type \in {"enter", "saveClick"} =>
                  IF PendingText # <<>> /\ isValidEmail(PendingText)
                  THEN \E now \in Times :
                           currentEmailList' =
                               Append(currentEmailList, [id |-> now, email |-> PendingText])
                  ELSE currentEmailList' = currentEmailList /\ alert' = None
           /\ type \notin {"enter", "saveClick", "select", "saveDone"} =>
                  /\ entries(currentEmailList') \subseteq entries(currentEmailList)
                  /\ Len(currentEmailList') <= Len(currentEmailList)]_vars

\* Enter has just been pressed on a pending text that is not a valid email.
C10_Witness ==
    /\ lastEvent.type = "enter"
    /\ pendingInput # None
    /\ PendingText # <<>>
    /\ ~isValidEmail(PendingText)

\* C11: once Cancel, or the completion of a successful delete, has been
\* handled, nothing is selected, no new contact is drafted, the snapshot is
\* null, names and committed list are empty, there is no pending text, the
\* adding-email mode is off, and the form is closed.
C11_DiscardClosesSession ==
    lastEvent.type \in {"cancel", "deleteDone"} =>
        /\ selectedContactId = Null
        /\ ~isNewContact
        /\ originalContact = None
        /\ firstNameInput = <<>>
        /\ lastNameInput = <<>>
        /\ currentEmailList = <<>>
        /\ PendingText = <<>>
        /\ ~isAddingEmail
        /\ ~FormOpen

\* C12: a list refresh, when its request is issued and when it completes
\* (with any outcome), leaves the selection, the draft (names, committed
\* list, pending input, adding-email mode), the snapshot and the form as they
\* were: only the contact list and its rendering may change.
C12_RefreshKeepsSession ==
    [][LET refreshIssued == \E r \in BagToSet(inflight') : r.op = "GET" /\ Issued(r)
       IN  (lastEvent'.type = "refreshDone" \/ refreshIssued) =>
               UNCHANGED <<selectedContactId, isNewContact, originalContact,
                           firstNameInput, lastNameInput, currentEmailList,
                           pendingInput, isAddingEmail, emailListDom,
                           contactFormHidden, saveBtnDisabled, deleteBtnDisplayed,
                           searchQuery>>]_vars

\* A refresh that replaced the contact list has just completed while a new
\* contact was being edited, a name and a pending email text typed.
C12_Witness ==
    /\ lastEvent.type = "refreshDone"
    /\ lastEvent.outcome = "ok"
    /\ contacts.items # <<>>
    /\ isNewContact
    /\ firstNameInput # <<>>
    /\ isAddingEmail
    /\ PendingText # <<>>

\* Every field of the draft of an existing contact holds its snapshot value:
\* the names, the ordered email strings, and no valid pending email text.
Reverted ==
    /\ originalContact # None
    /\ firstNameInput = originalContact[1].firstName
    /\ lastNameInput = originalContact[1].lastName
    /\ EmailStrings(currentEmailList) = EmailStrings(originalContact[1].emails)
    /\ ~(PendingText # <<>> /\ isValidEmail(PendingText))

\* C13: whenever every field of the draft of an existing contact holds its
\* snapshot value, checkForChanges computes no changes; so it does right
\* after a contact of the fetched list has been selected.
C13_RevertedHasNoChanges ==
    /\ Reverted => ~hasChanges(State)
    /\ lastEvent.type = "select" => Reverted /\ ~hasChanges(State)

\* C14: in every reachable state the ids of the entries of the committed
\* email list are pairwise different.
C14_LocalIdsDistinct ==
    \A i, j \in 1..Len(currentEmailList) :
        currentEmailList[i].id = currentEmailList[j].id => i = j

\* list with the entry at position row (from 1) taken out, the others in order.
Without(list, row) ==
    [i \in 1..(Len(list) - 1) |-> IF i < row THEN list[i] ELSE list[i + 1]]

\* C15: every rendered row is bound to the position of a committed entry and
\* stays bound to the same entry until the rows are drawn again; the delete
\* click of a row takes out the entry of that row and no other; and after an
\* Enter commit the delete click of the new entry's row gives the list back.
C15_RemovalIsExact ==
    /\ [](/\ emailListDom <= Len(currentEmailList)
          /\ \A row \in 1..emailListDom :
                 emailDeleteClick(State, row - 1).currentEmailList =
                     Without(currentEmailList, row)
          /\ (pendingInput # None /\ PendingText # <<>> /\ isValidEmail(PendingText)) =>
                 \A now \in Times :
                     LET added == emailEnter(State, now)
                         row == Len(added.currentEmailList)
                     IN  /\ added.emailListDom = row
                         /\ added.currentEmailList[row].email = PendingText
                         /\ emailDeleteClick(added, row - 1).currentEmailList =
                                currentEmailList)
    /\ [][/\ lastEvent'.type = "removeEmail" =>
                 \E row \in 1..emailListDom :
                     currentEmailList' = Without(currentEmailList, row)
          /\ \/ emailListDom' = Len(currentEmailList')
             \/ /\ emailListDom' = emailListDom
                /\ SubSeq(currentEmailList', 1, emailListDom) =
                       SubSeq(currentEmailList, 1, emailListDom)]_vars

\* The row of a loaded entry has just been removed from a list to which an
\* entry had been committed: the committed entry, and only it, is left.
C15_Witness ==
    /\ lastEvent.type = "removeEmail"
    /\ selectedContactId = Contact1.id
    /\ Len(currentEmailList) = 1
    /\ currentEmailList[1].id = 2
    /\ emailListDom = 1

\* C16: in every reachable state the snapshot is non-null exactly when an
\* existing contact id is selected; it is null while a new contact is drafted
\* without a selected id and while nothing is selected.
C16_SnapshotIffSelected ==
    /\ originalContact # None <=> selectedContactId # Null
    /\ selectedContactId # Null => selectedContactId \in ServerIds

\* A saved new contact has been selected: its snapshot holds the saved values.
C16_Witness ==
    /\ lastEvent.type = "saveDone"
    /\ selectedContactId \in CreatedIds
    /\ originalContact # None
    /\ originalContact[1].firstName # <<>>

\* contact passes the filter of query: its lower-cased "firstName lastName"
\* or one of its lower-cased emails contains the lower-cased query.
Matches(contact, query) ==
    \/ includes(toLowerCase(contact.firstName \o <<" ">> \o contact.lastName),
                toLowerCase(query))
    \/ \E i \in DOMAIN contact.emails :
           includes(toLowerCase(contact.emails[i].email), toLowerCase(query))

\* C17: the rendered list holds, once each, every contact of the in-memory
\* list when the query is empty and otherwise exactly those that pass the
\* filter; it is sorted ascending by lastName in both cases; and the
\* in-memory list stays the array the server answered, in the server's
\* order, whatever is typed into the search field.
C17_VisibleListDerived ==
    /\ [](LET all == contacts.items
              kept == {i \in 1..Len(all) :
                          searchQuery = <<>> \/ Matches(all[i], searchQuery)}
              shown == 1..Len(contactsListDom)
          IN  /\ \E f \in [shown -> kept] :
                     /\ \A i \in kept : \E k \in shown : f[k] = i
                     /\ \A k, l \in shown : f[k] = f[l] => k = l
                     /\ \A k \in shown : contactsListDom[k] = all[f[k]]
              /\ \A k, l \in shown :
                     k < l => localeCompare(contactsListDom[k].lastName,
                                            contactsListDom[l].lastName) <= 0
              /\ contacts.isArray
              /\ all \in ListAnswers)
    /\ [][lastEvent'.type = "search" => contacts' = contacts]_vars

\* The query has just been emptied again: the answer [Cb, Ab] is in memory
\* in that order and is shown as [Ab, Cb].
C17_Witness ==
    /\ lastEvent.type = "search"
    /\ searchQuery = <<>>
    /\ contacts.items = <<Listed1, Listed2>>
    /\ contactsListDom = <<Listed2, Listed1>>

\* C18: whatever the session was when the completion arrived, once the
\* refetch after a successful save has ended the saved contact is selected
\* and snapshot and draft hold its values, any newer draft discarded; and
\* once the refetch after a successful delete has ended nothing is selected
\* and snapshot and draft are cleared.
C18_CompletionsOverwriteSession ==
    /\ lastEvent.type = "saveDone" =>
           LET saved == lastEvent.contact[1]
           IN  /\ selectedContactId = saved.id
               /\ originalContact = Some([firstName |-> saved.firstName,
                                          lastName |-> saved.lastName,
                                          emails |-> saved.emails])
               /\ firstNameInput = saved.firstName
               /\ lastNameInput = saved.lastName
               /\ currentEmailList = saved.emails
               /\ ~isAddingEmail
               /\ pendingInput = None
    /\ lastEvent.type = "deleteDone" =>
           /\ selectedContactId = Null
           /\ originalContact = None
           /\ firstNameInput = <<>>
           /\ lastNameInput = <<>>
           /\ currentEmailList = <<>>
           /\ ~isAddingEmail
           /\ pendingInput = None

\* C19: the removal of a committed email entry leaves the name fields, the
\* adding-email mode and the pending email text as they were, and the
\* entries that remain in the order they had.
C19_RemovalKeepsRestOfDraft ==
    [][lastEvent'.type = "removeEmail" =>
           /\ UNCHANGED <<firstNameInput, lastNameInput, isAddingEmail>>
           /\ (IF pendingInput' = None THEN <<>> ELSE Trim(pendingInput'[1])) = PendingText
           /\ \E row \in 1..Len(currentEmailList) :
                  currentEmailList' = Without(currentEmailList, row)]_vars

\* C20: in every reachable state with no request in flight, a selected
\* contact id is the id of a contact of the in-memory contact list.
C20_SelectedIsListed ==
    (inflight = EmptyBag /\ selectedContactId # Null) =>
        \E i \in 1..Len(contacts.items) : contacts.items[i].id = selectedContactId

=============================================================================
